---- MODULE Spec2Model ----
(***************************************************************************)
(* System Tool Manager (stm): the configuration model of src/src/stm.rs    *)
(* and the command dispatch of src/src/main.rs.                            *)
(*                                                                         *)
(* Strings are TLA+ strings (equality is exact, so case-sensitive).  A     *)
(* command template and a command line are sequences of words; the         *)
(* package placeholder is one word.  Option<T> is <<>> for None and <<x>>  *)
(* for Some(x).  The OS is two sets: the binary names that resolve on the  *)
(* search path and the filesystem paths that exist.                        *)
(***************************************************************************)
EXTENDS Integers, Sequences, FiniteSets, TLC

VARIABLES
    config,     \* the loaded Config: [managers, tools]
    sub,        \* the subcommand of the command line
    args,       \* the manager names given on the command line
    pc,         \* where the process is
    idx,        \* position of the iterator over args (1-based)
    executed,   \* the manager commands handed to the OS so far, in order
    running,    \* TRUE while the process is blocked on a spawned command
    onPath,     \* binary names that resolve on the search path
    exists,     \* filesystem paths that exist
    output,     \* lines printed on stdout
    call,       \* the library query last made (query specification)
    ret         \* what it returned

vars == <<config, sub, args, pc, idx, executed, running, onPath, exists, output, call, ret>>

\* ------------------------------------------------------------------ bounds
MaxArgs == 3
MaxManagers == 2
MaxTools == 3

\* ------------------------------------------------------------------ values
None == <<>>
Some(x) == <<x>>
IsSome(o) == o # <<>>
Unwrap(o) == o[1]
UnwrapOr(o, d) == IF o = <<>> THEN d ELSE o[1]

Placeholder == "{{packages}}"

AlacrittyBin == "alacritty"
FontPath == "/usr/share/fonts/TTF/FiraCode-Regular.ttf"
CargoPath == "$CARGO_HOME/bin/cargo-watch"

Binaries == {AlacrittyBin}
Paths == {FontPath, CargoPath}

SeqsUpTo(S, n) == UNION {[1..k -> S] : k \in 0..n}

\* The subsequences of s: s with any set of positions dropped, order kept.
RECURSIVE SubSeqs(_)
SubSeqs(s) ==
    IF s = <<>> THEN {<<>>}
    ELSE LET rest == SubSeqs(Tail(s))
         IN  rest \cup {<<Head(s)>> \o r : r \in rest}

\* ------------------------------------------------------------------ stm.rs
ManagerNew(name, ic, uc) ==
    [name |-> name, install_command |-> ic, update_command |-> uc]

ToolNewSwapped(package, binary, path, manager) ==
    [package |-> package,
     binary |-> Some(UnwrapOr(path, "")),
     path |-> Some(UnwrapOr(binary, "")),
     manager |-> manager]

ToolNew(package, binary, path, manager) ==
    [package |-> package,
     binary |-> Some(UnwrapOr(binary, "")),
     path |-> Some(UnwrapOr(path, "")),
     manager |-> manager]

ToolNewBinary(package, binary, manager) == ToolNew(package, Some(binary), None, manager)

ToolNewPath(package, path, manager) == ToolNew(package, None, Some(path), manager)

\* A tool as serde builds it from JSON: an absent or null field is None.
ToolFromJson(package, binary, path, manager) ==
    [package |-> package, binary |-> binary, path |-> path, manager |-> manager]

RECURSIVE IterFindLast(_, _)
IterFindLast(ms, name) ==
    IF ms = <<>> THEN None
    ELSE IF name = ms[Len(ms)].name THEN Some(ms[Len(ms)])
    ELSE IterFindLast(SubSeq(ms, 1, Len(ms) - 1), name)

find_manager_last(cfg, name) == IterFindLast(cfg.managers, name)

RECURSIVE IterFind(_, _)
IterFind(ms, name) ==
    IF ms = <<>> THEN None
    ELSE IF name = Head(ms).name THEN Some(Head(ms))
    ELSE IterFind(Tail(ms), name)

find_manager(cfg, name) == IterFind(cfg.managers, name)

RECURSIVE names_dedup(_)
names_dedup(ms) ==
    IF ms = <<>> THEN <<>>
    ELSE LET init == names_dedup(SubSeq(ms, 1, Len(ms) - 1))
             n == ms[Len(ms)].name
         IN  IF \E k \in 1..Len(init) : init[k] = n THEN init ELSE Append(init, n)

RECURSIVE names(_)
names(ms) ==
    IF ms = <<>> THEN <<>>
    ELSE <<Head(ms).name>> \o names(Tail(ms))

RECURSIVE filter_by_manager_rev(_, _)
filter_by_manager_rev(tools, manager) ==
    IF tools = <<>> THEN <<>>
    ELSE IF manager = Head(tools).manager
         THEN Append(filter_by_manager_rev(Tail(tools), manager), Head(tools))
         ELSE filter_by_manager_rev(Tail(tools), manager)

RECURSIVE filter_by_manager(_, _)
filter_by_manager(tools, manager) ==
    IF tools = <<>> THEN <<>>
    ELSE IF manager = Head(tools).manager
         THEN <<Head(tools)>> \o filter_by_manager(Tail(tools), manager)
         ELSE filter_by_manager(Tail(tools), manager)

\* Tool::is_installed: binary first, then path, else not installed.
is_installed(t, bins, paths) ==
    IF IsSome(t.binary) /\ Unwrap(t.binary) # ""
    THEN Unwrap(t.binary) \in bins
    ELSE IF IsSome(t.path) /\ Unwrap(t.path) # ""
         THEN Unwrap(t.path) \in paths
         ELSE FALSE

\* str::replace(placeholder, packages.join(" ")) on a line of words.
RECURSIVE Substitute(_, _)
Substitute(template, packages) ==
    IF template = <<>> THEN <<>>
    ELSE IF Head(template) = Placeholder
         THEN packages \o Substitute(Tail(template), packages)
         ELSE <<Head(template)>> \o Substitute(Tail(template), packages)

install_packages(m, packages) == Substitute(m.install_command, packages)

update_packages(m, packages) == Substitute(m.update_command, packages)

\* The Result of running a command line: Ok iff it was spawned and exited with success.
ExecOk(spawned, success) == spawned /\ success

\* ------------------------------------------------------------------ inputs
\* The configuration of the repository's tests (create_temp_json), with a second
\* manager declared under the name "arch".
FixtureManagers ==
    << ManagerNew("arch", <<"yay", "-Sy", Placeholder>>, <<"yay", "-Syu">>),
       ManagerNew("cargo", <<"cargo", "install", "--force", Placeholder>>,
                  <<"cargo", "install", "--force", Placeholder>>),
       ManagerNew("arch", <<"pacman", "-S", Placeholder>>, <<"pacman", "-Syu", Placeholder>>) >>

FixtureTools ==
    << ToolNewBinary("alacritty", AlacrittyBin, "arch"),
       ToolNewPath("ttf-fira-code", FontPath, "arch"),
       ToolNewPath("cargo-watch", CargoPath, "cargo") >>

ArgNames == {"arch", "cargo", "Arch"}

Configs ==
    {[managers |-> ms, tools |-> ts] : ms \in SubSeqs(FixtureManagers), ts \in SubSeqs(FixtureTools)}

NoCall == [op |-> "none"]

\* ------------------------------------------------------------------ main.rs
Contains(s, v) == \E k \in 1..Len(s) : s[k] = v

has_valid_manager_any(cfg, v) == TRUE

has_valid_manager(cfg, v) == Contains(names(cfg.managers), v)

RECURSIVE FilterNotInstalled(_, _, _)
FilterNotInstalled(tools, bins, paths) ==
    IF tools = <<>> THEN <<>>
    ELSE IF ~is_installed(Head(tools), bins, paths)
         THEN <<Head(tools)>> \o FilterNotInstalled(Tail(tools), bins, paths)
         ELSE FilterNotInstalled(Tail(tools), bins, paths)

RECURSIVE MapPackage(_)
MapPackage(tools) ==
    IF tools = <<>> THEN <<>>
    ELSE <<Head(tools).package>> \o MapPackage(Tail(tools))

InstallSelectionAll(cfg, m, bins, paths) ==
    MapPackage(filter_by_manager(cfg.tools, m.name))

\* main.rs 86-92: the packages handed to install_packages.
InstallSelection(cfg, m, bins, paths) ==
    MapPackage(FilterNotInstalled(filter_by_manager(cfg.tools, m.name), bins, paths))

UpdateSelectionNotInstalled(cfg, m, bins, paths) ==
    MapPackage(FilterNotInstalled(filter_by_manager(cfg.tools, m.name), bins, paths))

\* main.rs 105-110: the packages handed to update_packages.
UpdateSelection(cfg, m, bins, paths) ==
    MapPackage(filter_by_manager(cfg.tools, m.name))

NextArgReversed(a, i) == a[Len(a) + 1 - i]

\* managers.iter(): the i-th name the iterator yields.
NextArg(a, i) == a[i]

Entry(kind, m, packages, cmd, status) ==
    [kind |-> kind, manager |-> m, packages |-> packages, cmd |-> cmd,
     status |-> status, onPath |-> onPath, exists |-> exists]

Panic ==
    /\ pc' = "panicked"
    /\ UNCHANGED <<executed, running>>

\* The blocking call m.install_packages(packages) / m.update_packages(packages):
\* the resolved command line is handed to the OS; a command that cannot be
\* spawned is an Err, on which .expect panics.
Spawn(kind, m, packages, cmd) ==
    \E spawned \in BOOLEAN :
        IF ExecOk(spawned, TRUE)
        THEN /\ executed' = Append(executed, Entry(kind, m, packages, cmd, "running"))
             /\ running' = TRUE
             /\ pc' = pc
        ELSE /\ executed' = Append(executed, Entry(kind, m, packages, cmd, "spawn_error"))
             /\ running' = FALSE
             /\ pc' = "panicked"

\* main.rs 27-76: get_matches validates every value of `managers` with
\* has_valid_manager and exits on the first Err; otherwise the subcommand runs.
main ==
    /\ pc = "start"
    /\ pc' = IF sub = "list" THEN "list"
             ELSE IF args = <<>> THEN "rejected"
             ELSE IF \E k \in 1..Len(args) : ~has_valid_manager(config, args[k]) THEN "rejected"
             ELSE sub
    /\ UNCHANGED <<config, sub, args, idx, executed, running, onPath, exists, output, call, ret>>

install_command_skip_empty ==
    /\ pc = "install"
    /\ ~running
    /\ idx <= Len(args)
    /\ LET found == find_manager(config, NextArg(args, idx))
       IN  IF ~IsSome(found)
           THEN Panic /\ idx' = idx
           ELSE LET m == Unwrap(found)
                    packages == InstallSelection(config, m, onPath, exists)
                IN  IF packages = <<>>
                    THEN /\ pc' = IF idx = Len(args) THEN "done" ELSE pc
                         /\ idx' = idx + 1
                         /\ UNCHANGED <<executed, running>>
                    ELSE /\ Spawn("install", m, packages, install_packages(m, packages))
                         /\ idx' = idx
    /\ UNCHANGED <<config, sub, args, onPath, exists, output, call, ret>>

\* main.rs 79-96, one turn of the for_each closure up to the blocking call: look
\* the manager up, select its packages, resolve the command line and run it.
install_command ==
    /\ pc = "install"
    /\ ~running
    /\ idx <= Len(args)
    /\ LET found == find_manager(config, NextArg(args, idx))
       IN  IF ~IsSome(found)
           THEN Panic
           ELSE LET m == Unwrap(found)
                    packages == InstallSelection(config, m, onPath, exists)
                IN  Spawn("install", m, packages, install_packages(m, packages))
    /\ UNCHANGED <<config, sub, args, idx, onPath, exists, output, call, ret>>

\* main.rs 98-114, likewise.
update_command ==
    /\ pc = "update"
    /\ ~running
    /\ idx <= Len(args)
    /\ LET found == find_manager(config, NextArg(args, idx))
       IN  IF ~IsSome(found)
           THEN Panic
           ELSE LET m == Unwrap(found)
                    packages == UpdateSelection(config, m, onPath, exists)
                IN  Spawn("update", m, packages, update_packages(m, packages))
    /\ UNCHANGED <<config, sub, args, idx, onPath, exists, output, call, ret>>

\* What a package manager's run may leave behind: the markers of the tools it was given.
Installs(e) ==
    {t \in {config.tools[k] : k \in 1..Len(config.tools)} :
        t.manager = e.manager.name /\ Contains(e.packages, t.package)}

SetStatus(log, status) == [log EXCEPT ![Len(log)].status = status]

command_exit_ignore_failure ==
    /\ pc \in {"install", "update"}
    /\ running
    /\ \E success \in BOOLEAN, effect \in BOOLEAN :
          /\ executed' = SetStatus(executed, IF ExecOk(TRUE, success) THEN "ok" ELSE "failed")
          /\ onPath' = IF effect
                       THEN onPath \cup ({UnwrapOr(t.binary, "") : t \in Installs(executed[Len(executed)])} \ {""})
                       ELSE onPath
          /\ exists' = IF effect
                       THEN exists \cup ({UnwrapOr(t.path, "") : t \in Installs(executed[Len(executed)])} \ {""})
                       ELSE exists
          /\ running' = FALSE
          /\ idx' = idx + 1
          /\ pc' = IF idx = Len(args) THEN "done" ELSE pc
    /\ UNCHANGED <<config, sub, args, output, call, ret>>

\* The spawned command exits; .expect("failed to execute process") panics on Err,
\* otherwise the iterator advances (and the process ends after the last manager).
command_exit ==
    /\ pc \in {"install", "update"}
    /\ running
    /\ \E success \in BOOLEAN, effect \in BOOLEAN :
          /\ executed' = SetStatus(executed, IF ExecOk(TRUE, success) THEN "ok" ELSE "failed")
          /\ onPath' = IF effect
                       THEN onPath \cup ({UnwrapOr(t.binary, "") : t \in Installs(executed[Len(executed)])} \ {""})
                       ELSE onPath
          /\ exists' = IF effect
                       THEN exists \cup ({UnwrapOr(t.path, "") : t \in Installs(executed[Len(executed)])} \ {""})
                       ELSE exists
          /\ running' = FALSE
          /\ IF ExecOk(TRUE, success)
             THEN /\ idx' = idx + 1
                  /\ pc' = IF idx = Len(args) THEN "done" ELSE pc
             ELSE /\ idx' = idx
                  /\ pc' = "panicked"
    /\ UNCHANGED <<config, sub, args, output, call, ret>>

list_command ==
    /\ pc = "list"
    /\ output' = output \o names(config.managers)
    /\ pc' = "done"
    /\ UNCHANGED <<config, sub, args, idx, executed, running, onPath, exists, call, ret>>

Init ==
    /\ config \in Configs
    /\ sub \in {"install", "update", "list"}
    /\ args \in IF sub = "list" THEN {<<>>} ELSE SeqsUpTo(ArgNames, MaxArgs)
    /\ pc = "start"
    /\ idx = 1
    /\ executed = <<>>
    /\ running = FALSE
    /\ onPath \in SUBSET Binaries
    /\ exists \in SUBSET Paths
    /\ output = <<>>
    /\ call = NoCall
    /\ ret = None

Next ==
    \/ main
    \/ install_command
    \/ update_command
    \/ command_exit
    \/ list_command

Spec == Init /\ [][Next]_vars

\* ------------------------------------------------------------------ queries
\* The library operations of stm.rs called on their own, as the unit tests do.
ManagerPool ==
    {FixtureManagers[1], FixtureManagers[3],
     ManagerNew("Arch", <<"paru", "-S", Placeholder>>, <<"paru", "-Syu">>)}

ToolPool == {FixtureTools[k] : k \in 1..Len(FixtureTools)}

QueryNames == {"arch", "cargo", "Arch", "rust"}

\* Every shape of the two optional fields a Tool can hold.
ToolUniverse ==
    {ToolFromJson("pkg", b, p, "arch") :
        b \in {None, Some(""), Some(AlacrittyBin)},
        p \in {None, Some(""), Some(FontPath)}}

InitQuery ==
    /\ config \in {[managers |-> ms, tools |-> ts] :
                      ms \in SeqsUpTo(ManagerPool, MaxManagers),
                      ts \in SeqsUpTo(ToolPool, MaxTools)}
    /\ sub = "list"
    /\ args = <<>>
    /\ pc = "query"
    /\ idx = 1
    /\ executed = <<>>
    /\ running = FALSE
    /\ onPath \in SUBSET Binaries
    /\ exists \in SUBSET {FontPath}
    /\ output = <<>>
    /\ call = NoCall
    /\ ret = None

Unqueried == <<config, sub, args, idx, executed, running, onPath, exists, output>>

call_find_manager ==
    /\ pc = "query"
    /\ pc' = "returned"
    /\ \E name \in QueryNames :
          /\ call' = [op |-> "find_manager", name |-> name]
          /\ ret' = find_manager(config, name)
    /\ UNCHANGED Unqueried

call_names ==
    /\ pc = "query"
    /\ pc' = "returned"
    /\ call' = [op |-> "names"]
    /\ ret' = names(config.managers)
    /\ UNCHANGED Unqueried

call_filter_by_manager ==
    /\ pc = "query"
    /\ pc' = "returned"
    /\ \E name \in QueryNames :
          /\ call' = [op |-> "filter_by_manager", name |-> name]
          /\ ret' = filter_by_manager(config.tools, name)
    /\ UNCHANGED Unqueried

call_is_installed ==
    /\ pc = "query"
    /\ pc' = "returned"
    /\ \E t \in ToolUniverse :
          /\ call' = [op |-> "is_installed", tool |-> t]
          /\ ret' = is_installed(t, onPath, exists)
    /\ UNCHANGED Unqueried

call_new_binary ==
    /\ pc = "query"
    /\ pc' = "returned"
    /\ \E b \in Binaries \cup {""} :
          /\ call' = [op |-> "new_binary", arg |-> b]
          /\ ret' = is_installed(ToolNewBinary("pkg", b, "arch"), onPath, exists)
    /\ UNCHANGED Unqueried

call_new_path ==
    /\ pc = "query"
    /\ pc' = "returned"
    /\ \E p \in {FontPath, ""} :
          /\ call' = [op |-> "new_path", arg |-> p]
          /\ ret' = is_installed(ToolNewPath("pkg", p, "arch"), onPath, exists)
    /\ UNCHANGED Unqueried

NextQuery ==
    \/ call_find_manager
    \/ call_names
    \/ call_filter_by_manager
    \/ call_is_installed
    \/ call_new_binary
    \/ call_new_path

SpecQuery == InitQuery /\ [][NextQuery]_vars

\* ------------------------------------------------------------------ properties
ManagerAt(k) == config.managers[k]
ToolAt(k) == config.tools[k]
Known(name) == \E k \in 1..Len(config.managers) : ManagerAt(k).name = name
Dispatching == sub \in {"install", "update"}
Failed(e) == e.status \in {"failed", "spawn_error"}

\* The j-th smallest member of a set of indices.
Nth(S, j) == CHOOSE k \in S : Cardinality({x \in S : x < k}) = j - 1

\* s lists exactly the items at the indices S, in increasing index order.
ListsInOrder(s, S, items) ==
    /\ Len(s) = Cardinality(S)
    /\ \A j \in 1..Len(s) : s[j] = items[Nth(S, j)]

ToolPackages == [k \in 1..Len(config.tools) |-> ToolAt(k).package]

\* C1: when a name given to install or update is not the name of a configured
\* manager, the invocation is rejected at validation and no command is executed,
\* not even for the valid names before it.
C1_UnknownManagerRejectsAll ==
    (Dispatching /\ \E k \in 1..Len(args) : ~Known(args[k]))
        => /\ executed = <<>>
           /\ ~running
           /\ pc \in {"start", "rejected"}

C1_Witness ==
    /\ pc = "rejected"
    /\ sub = "install"
    /\ Len(args) = 2
    /\ Known(args[1])
    /\ ~Known(args[2])

\* C2: when the command of the i-th manager cannot be spawned or exits with
\* failure, the process terminates there: it is the last command executed, nothing
\* can follow it, and the commands before it stay executed.
C2_StopOnFirstFailure ==
    \A i \in 1..Len(executed) :
        Failed(executed[i])
            => /\ pc = "panicked"
               /\ ~running
               /\ i = Len(executed)
               /\ idx = i
               /\ \A j \in 1..(i - 1) :
                     executed[j].status = "ok" /\ executed[j].manager.name = args[j]
               /\ ~ENABLED Next

C2_Witness ==
    /\ pc = "panicked"
    /\ Len(args) = 3
    /\ Len(executed) = 2
    /\ executed[1].status = "ok"
    /\ executed[2].status = "failed"

\* C3: the packages handed to a manager's install command are the packages of the
\* tools of that manager that are not installed when the list is built, in
\* ToolList order, and nothing else.
C3_InstallSelection ==
    \A i \in 1..Len(executed) :
        executed[i].kind = "install"
            => ListsInOrder(executed[i].packages,
                            {k \in 1..Len(config.tools) :
                                /\ ToolAt(k).manager = executed[i].manager.name
                                /\ ~is_installed(ToolAt(k), executed[i].onPath, executed[i].exists)},
                            ToolPackages)

C3_Witness ==
    /\ Len(config.tools) = 3
    /\ Len(executed) = 1
    /\ executed[1].kind = "install"
    /\ executed[1].manager.name = "arch"
    /\ executed[1].packages = <<"ttf-fira-code">>
    /\ is_installed(ToolAt(1), executed[1].onPath, executed[1].exists)

\* C4: the packages handed to a manager's update command are the packages of all
\* the tools of that manager, in ToolList order, whatever is installed.
C4_UpdateSelection ==
    \A i \in 1..Len(executed) :
        executed[i].kind = "update"
            => ListsInOrder(executed[i].packages,
                            {k \in 1..Len(config.tools) :
                                ToolAt(k).manager = executed[i].manager.name},
                            ToolPackages)

C4_Witness ==
    /\ Len(config.tools) = 3
    /\ Len(executed) = 1
    /\ executed[1].kind = "update"
    /\ executed[1].packages = <<"alacritty", "ttf-fira-code">>
    /\ is_installed(ToolAt(1), executed[1].onPath, executed[1].exists)
    /\ ~is_installed(ToolAt(2), executed[1].onPath, executed[1].exists)

\* C5: filter_by_manager(m) returns the tools whose manager field equals m, each
\* once, in ToolList order, and the empty sequence when there is none.
C5_FilterByManager ==
    call.op = "filter_by_manager"
        => ListsInOrder(ret,
                        {k \in 1..Len(config.tools) : ToolAt(k).manager = call.name},
                        config.tools)

C5_Witness ==
    /\ call.op = "filter_by_manager"
    /\ Len(config.tools) = 3
    /\ ToolAt(2).manager # call.name
    /\ Len(ret) = 2
    /\ ret[1] # ret[2]

\* C6: find_manager(name) returns the first manager, in declaration order, whose
\* name equals name exactly, and none iff no manager has that name.
C6_FindManager ==
    call.op = "find_manager"
        => LET hits == {k \in 1..Len(config.managers) : ManagerAt(k).name = call.name}
           IN  IF hits = {}
               THEN ret = None
               ELSE ret = Some(ManagerAt(Nth(hits, 1)))

C6_Witness ==
    /\ call.op = "find_manager"
    /\ Len(config.managers) = 2
    /\ ManagerAt(1).name = call.name
    /\ ManagerAt(2).name = call.name
    /\ ManagerAt(1) # ManagerAt(2)
    /\ ret = Some(ManagerAt(1))

\* C7: list prints the name of every manager, one line per manager, duplicates
\* kept, in declaration order, and executes no manager command.
C7_ListPrintsNames ==
    sub = "list"
        => /\ executed = <<>>
           /\ ~running
           /\ pc = "done"
                 => /\ Len(output) = Len(config.managers)
                    /\ \A k \in 1..Len(output) : output[k] = ManagerAt(k).name

C7_Witness ==
    /\ sub = "list"
    /\ pc = "done"
    /\ output = <<"arch", "cargo", "arch">>

\* C8: when every command succeeds, one command is executed per name given, the
\* i-th for the manager of the i-th name, and a command is handed to the OS only
\* after every command before it has completed.
C8_InOrderOneAtATime ==
    Dispatching
        => /\ \A i \in 1..Len(executed) :
                 /\ executed[i].manager.name = args[i]
                 /\ executed[i].manager =
                        ManagerAt(Nth({k \in 1..Len(config.managers) : ManagerAt(k).name = args[i]}, 1))
                 /\ i < Len(executed) => executed[i].status = "ok"
           /\ running <=> (executed # <<>> /\ executed[Len(executed)].status = "running")
           /\ pc = "done"
                 => /\ Len(executed) = Len(args)
                    /\ \A i \in 1..Len(executed) : executed[i].status = "ok"

C8_Witness ==
    /\ pc = "done"
    /\ Len(args) = 3
    /\ args[1] = "cargo"
    /\ args[2] = "arch"
    /\ args[3] = "cargo"
    /\ Len(executed) = 3

\* C9: is_installed checks the binary when one is set and non-empty, whatever the
\* path; otherwise the path when one is set and non-empty; otherwise it is false.
\* A tool built by new_binary or new_path holds "" in the field it was not given.
C9_IsInstalledPrecedence ==
    /\ call.op = "is_installed"
          => LET b == call.tool.binary
                 p == call.tool.path
                 hasBinary == b # None /\ b[1] # ""
                 hasPath == p # None /\ p[1] # ""
             IN  /\ hasBinary => (ret <=> b[1] \in onPath)
                 /\ (~hasBinary /\ hasPath) => (ret <=> p[1] \in exists)
                 /\ (~hasBinary /\ ~hasPath) => (ret = FALSE)
    /\ call.op = "new_binary" => (ret <=> (call.arg # "" /\ call.arg \in onPath))
    /\ call.op = "new_path" => (ret <=> (call.arg # "" /\ call.arg \in exists))

C9_Witness ==
    /\ call.op = "new_path"
    /\ call.arg = FontPath
    /\ onPath = {}
    /\ ret = TRUE

\* C10: a manager whose selected package list is empty is not skipped: its command
\* is executed with the placeholder replaced by nothing, and its failure aborts
\* the invocation like any other.
C10_EmptySelectionStillRuns ==
    Dispatching
        => /\ pc \in {"install", "update", "done", "panicked"}
                 => Len(executed) =
                        IF running \/ (executed # <<>> /\ Failed(executed[Len(executed)]))
                        THEN idx ELSE idx - 1
           /\ \A i \in 1..Len(executed) :
                 executed[i].packages = <<>>
                     => /\ executed[i].cmd =
                              SelectSeq(IF executed[i].kind = "install"
                                        THEN executed[i].manager.install_command
                                        ELSE executed[i].manager.update_command,
                                        LAMBDA w : w # Placeholder)
                        /\ Failed(executed[i]) => pc = "panicked"

C10_Witness ==
    /\ pc = "done"
    /\ sub = "install"
    /\ Len(executed) = 2
    /\ executed[1].packages # <<>>
    /\ executed[2].packages = <<>>
    /\ executed[2].manager.name = executed[1].manager.name
    /\ executed[2].cmd = <<"yay", "-Sy">>

====
